---- MODULE Spec2Model ----
(***************************************************************************)
(* State machine of the storefront script "js.for shope.js": the           *)
(* localStorage-backed session, user directory, cart, per-user orders and  *)
(* the checkout token, with one action per DOM event handler.              *)
(*                                                                         *)
(* JavaScript values are tagged records.  A JavaScript string is a         *)
(* sequence of characters (one-character TLA+ strings); the fixed property *)
(* names and product ids of the script are written as one-element          *)
(* sequences (<<"passwordHash">>, <<"p1">>), since the script never looks  *)
(* inside them.  A JSON text is a sequence of tokens.                      *)
(***************************************************************************)
EXTENDS Integers, Sequences, FiniteSets, TLC

(***************************************************************************)
(* Bounds of the model.                                                    *)
(***************************************************************************)
MaxUnits == 2      \* units in the cart, over all its lines
MaxOrders == 1     \* orders recorded, over all users, where the products vary
MaxDraws == 3      \* tokens drawn from crypto.getRandomValues
MaxClock == 1      \* largest reading of Date.now()

(***************************************************************************)
(* JavaScript values.                                                      *)
(***************************************************************************)
Null == [t |-> "null"]
Undefined == [t |-> "undefined"]
Str(s) == [t |-> "string", s |-> s]
Num(n) == [t |-> "number", n |-> n]
Obj(m) == [t |-> "object", m |-> m]      \* m: members <<[k, v], ...>> in insertion order
Arr(a) == [t |-> "array", a |-> a]

\* ToBoolean, as used by !x, x || y and x ? y : z
Truthy(v) ==
  CASE v.t = "null" -> FALSE
    [] v.t = "undefined" -> FALSE
    [] v.t = "string" -> v.s # <<>>
    [] v.t = "number" -> v.n # 0
    [] OTHER -> TRUE

\* x || y
OrElse(x, y) == IF Truthy(x) THEN x ELSE y

Keys(o) == {o.m[i].k : i \in 1..Len(o.m)}

\* o[k]
Get(o, k) ==
  IF k \in Keys(o)
  THEN (o.m[CHOOSE i \in 1..Len(o.m) : o.m[i].k = k]).v
  ELSE Undefined

\* o[k] = v: an existing key keeps its place, a new key goes last
Put(o, k, v) ==
  IF k \in Keys(o)
  THEN Obj([i \in 1..Len(o.m) |-> IF o.m[i].k = k THEN [k |-> k, v |-> v] ELSE o.m[i]])
  ELSE Obj(Append(o.m, [k |-> k, v |-> v]))

\* delete o[k]
Delete(o, k) == Obj(SelectSeq(o.m, LAMBDA e : e.k # k))

\* Object.entries(o), Object.values(o)
Entries(o) == o.m

\* an object literal { k1: v1, k2: v2, ... } from <<<<"k1", v1>>, ...>>
Literal(ps) == Obj([i \in 1..Len(ps) |-> [k |-> <<ps[i][1]>>, v |-> ps[i][2]]])

(***************************************************************************)
(* Strings: trim, toLowerCase, charCodeAt, toString(16).                   *)
(***************************************************************************)
\* the white space and the control characters the model types
WhiteSpace == {" ", "\t"}
ControlChars == {"\t"}

RECURSIVE TrimStart(_)
TrimStart(s) ==
  IF s # <<>> /\ Head(s) \in WhiteSpace THEN TrimStart(Tail(s)) ELSE s

RECURSIVE TrimEnd(_)
TrimEnd(s) ==
  IF s # <<>> /\ s[Len(s)] \in WhiteSpace THEN TrimEnd(SubSeq(s, 1, Len(s) - 1)) ELSE s

\* String.prototype.trim
Trim(s) == TrimEnd(TrimStart(s))

LowerOf(c) ==
  CASE c = "A" -> "a"
    [] c = "B" -> "b"
    [] OTHER -> c

\* String.prototype.toLowerCase
ToLowerCase(s) == [i \in 1..Len(s) |-> LowerOf(s[i])]

\* String.prototype.charCodeAt for the characters the model types
CharCode(c) ==
  CASE c = " " -> 32
    [] c = "6" -> 54
    [] c = "A" -> 65
    [] c = "B" -> 66
    [] c = "a" -> 97
    [] c = "b" -> 98
    [] c = "g" -> 103
    [] c = "p" -> 112
    [] c = "q" -> 113

HexDigit(d) == SubSeq(<<"0", "1", "2", "3", "4", "5", "6", "7", "8", "9",
                        "a", "b", "c", "d", "e", "f">>, d + 1, d + 1)

\* Number.prototype.toString(16) of a non-negative integer
RECURSIVE ToHex(_)
ToHex(n) == IF n < 16 THEN HexDigit(n) ELSE ToHex(n \div 16) \o HexDigit(n % 16)

Half == 65536    \* 2^16: a 32-bit value is kept as [hi, lo], two 16-bit halves

\* the last four hexadecimal digits of a 16-bit value, zeros included
Hex4(n) ==
  HexDigit(n \div 4096) \o HexDigit((n \div 256) % 16) \o HexDigit((n \div 16) % 16)
    \o HexDigit(n % 16)

\* (w >>> 0).toString(16)
WordToHex(w) == IF w.hi = 0 THEN ToHex(w.lo) ELSE ToHex(w.hi) \o Hex4(w.lo)

\* (w * 33) truncated to 32 bits
Times33(w) ==
  [hi |-> (w.hi * 33 + ((w.lo * 33) \div Half)) % Half, lo |-> (w.lo * 33) % Half]

\* a ^ b on non-negative operands
RECURSIVE Xor(_, _)
Xor(a, b) ==
  IF a = 0 THEN b
  ELSE IF b = 0 THEN a
  ELSE (((a % 2) + (b % 2)) % 2) + 2 * Xor(a \div 2, b \div 2)

(***************************************************************************)
(* JSON.stringify and JSON.parse over token sequences.                     *)
(***************************************************************************)
Tok(c) == [tok |-> c]
StrTok(s) == [tok |-> "string", s |-> s]
NumTok(n) == [tok |-> "number", n |-> n]

RECURSIVE Join(_, _)
Join(parts, sep) ==
  IF parts = <<>> THEN <<>>
  ELSE IF Len(parts) = 1 THEN parts[1]
  ELSE parts[1] \o <<sep>> \o Join(Tail(parts), sep)

\* JSON.stringify(v).  A member whose value is undefined is left out, an
\* undefined array element is written null, and stringify(undefined) yields
\* no text, which setItem stores as the word "undefined".
RECURSIVE JSONstringify(_)
JSONstringify(v) ==
  CASE v.t = "null" -> <<Tok("null")>>
    [] v.t = "undefined" -> <<Tok("undefined")>>
    [] v.t = "string" -> <<StrTok(v.s)>>
    [] v.t = "number" -> <<NumTok(v.n)>>
    [] v.t = "object" ->
         LET kept == SelectSeq(v.m, LAMBDA e : e.v.t # "undefined")
             parts == [i \in 1..Len(kept) |->
                         <<StrTok(kept[i].k), Tok(":")>> \o JSONstringify(kept[i].v)]
         IN  <<Tok("{")>> \o Join(parts, Tok(",")) \o <<Tok("}")>>
    [] v.t = "array" ->
         LET parts == [i \in 1..Len(v.a) |->
                         IF v.a[i].t = "undefined" THEN <<Tok("null")>>
                         ELSE JSONstringify(v.a[i])]
         IN  <<Tok("[")>> \o Join(parts, Tok(",")) \o <<Tok("]")>>

SyntaxError == [ok |-> FALSE, v |-> Undefined, next |-> 0]
Parsed(v, next) == [ok |-> TRUE, v |-> v, next |-> next]

TokAt(text, i) == IF i <= Len(text) THEN text[i].tok ELSE "end"

RECURSIVE ParseValue(_, _), ParseMembers(_, _, _), ParseElements(_, _, _)
\* the JSON value that starts at token i
ParseValue(text, i) ==
  CASE TokAt(text, i) = "null" -> Parsed(Null, i + 1)
    [] TokAt(text, i) = "string" -> Parsed(Str(text[i].s), i + 1)
    [] TokAt(text, i) = "number" -> Parsed(Num(text[i].n), i + 1)
    [] TokAt(text, i) = "{" ->
         IF TokAt(text, i + 1) = "}" THEN Parsed(Obj(<<>>), i + 2)
         ELSE ParseMembers(text, i + 1, Obj(<<>>))
    [] TokAt(text, i) = "[" ->
         IF TokAt(text, i + 1) = "]" THEN Parsed(Arr(<<>>), i + 2)
         ELSE ParseElements(text, i + 1, <<>>)
    [] OTHER -> SyntaxError

\* "key": value, then "," and more members, or "}"
ParseMembers(text, i, acc) ==
  IF TokAt(text, i) # "string" \/ TokAt(text, i + 1) # ":" THEN SyntaxError
  ELSE LET r == ParseValue(text, i + 2) IN
       IF ~r.ok THEN SyntaxError
       ELSE IF TokAt(text, r.next) = "}"
            THEN Parsed(Put(acc, text[i].s, r.v), r.next + 1)
       ELSE IF TokAt(text, r.next) = ","
            THEN ParseMembers(text, r.next + 1, Put(acc, text[i].s, r.v))
       ELSE SyntaxError

\* value, then "," and more elements, or "]"
ParseElements(text, i, acc) ==
  LET r == ParseValue(text, i) IN
  IF ~r.ok THEN SyntaxError
  ELSE IF TokAt(text, r.next) = "]"
       THEN Parsed(Arr(Append(acc, r.v)), r.next + 1)
  ELSE IF TokAt(text, r.next) = ","
       THEN ParseElements(text, r.next + 1, Append(acc, r.v))
  ELSE SyntaxError

\* JSON.parse(text): the value, or a SyntaxError when the text is not one
\* JSON value
JSONparse(text) ==
  LET r == ParseValue(text, 1) IN
  IF r.ok /\ r.next = Len(text) + 1 THEN r ELSE SyntaxError

(***************************************************************************)
(* The script's data and helpers.                                          *)
(***************************************************************************)
Product(id, name, category, price) ==
  Literal(<< <<"id", Str(<<id>>)>>, <<"name", Str(<<name>>)>>,
             <<"category", Str(<<category>>)>>, <<"price", Num(price)>> >>)

PRODUCTS ==
  << Product("p1", "Wireless Headphones", "electronics", 3999),
     Product("p2", "Mechanical Keyboard", "electronics", 5499),
     Product("p3", "Smartwatch Classic", "electronics", 6999),
     Product("p4", "Premium Hoodie", "fashion", 1999),
     Product("p5", "Running Shoes", "fashion", 2999),
     Product("p6", "Cotton T-Shirt", "fashion", 899),
     Product("p7", "Table Lamp", "home", 1299),
     Product("p8", "Non-stick Pan Set", "home", 2499),
     Product("p9", "Wall Art Frame", "home", 799) >>

STORAGE_KEYS ==
  [USER |-> "secureShop.currentUser", USERS |-> "secureShop.users",
   CART |-> "secureShop.cart", ORDERS |-> "secureShop.orders"]

\* localStorage.getItem(key): the stored text, or null
HasItem(storage, key) == key \in DOMAIN storage

\* localStorage.setItem(key, text)
SetItem(storage, key, text) ==
  [k \in DOMAIN storage \cup {key} |-> IF k = key THEN text ELSE storage[k]]

\* safeParse as "JSON.parse(json) || fallback"
safeParse_orFallback(json, fallback) ==
  LET r == JSONparse(json) IN IF r.ok THEN OrElse(r.v, fallback) ELSE fallback

safeParse(json, fallback) ==
  LET r == JSONparse(json) IN IF r.ok THEN r.v ELSE fallback

\* raw ? safeParse(raw, fallback) : fallback; raw is falsy when it is null
\* or the empty text
loadState(storage, key, fallback) ==
  IF HasItem(storage, key) /\ storage[key] # <<>>
  THEN safeParse(storage[key], fallback)
  ELSE fallback

saveState(storage, key, value) == SetItem(storage, key, JSONstringify(value))

\* the loop of hashString: hash = (hash * 33) ^ str.charCodeAt(i), where ^
\* truncates to 32 bits and a character code touches the low half only
RECURSIVE HashLoop(_, _, _)
HashLoop(str, i, hash) ==
  IF i > Len(str) THEN hash
  ELSE HashLoop(str, i + 1,
                [hi |-> Times33(hash).hi, lo |-> Xor(Times33(hash).lo, CharCode(str[i]))])

hashString(str) == WordToHex(HashLoop(str, 1, [hi |-> 0, lo |-> 5381]))

\* String(str).trim().replace(/[\u0000-\u001F\u007F-\u009F]/g, "")
sanitizeInput(str) == SelectSeq(Trim(str), LAMBDA c : c \notin ControlChars)

(***************************************************************************)
(* The script's functions, as functions of the memory m: a record of the   *)
(* module-level variables and of localStorage.  A function that may throw  *)
(* returns Thrown or Returned.                                             *)
(***************************************************************************)
Thrown(message, m) == [threw |-> TRUE, message |-> message, m |-> m]
Returned(m) == [threw |-> FALSE, message |-> "", m |-> m]

setCurrentUser(m, email) ==
  [m EXCEPT !.currentUser = email,
            !.storage = saveState(m.storage, STORAGE_KEYS.USER, email)]

\* registerUser without the look for an existing record
registerUser_overwrites(m, email, password) ==
  LET normalizedEmail == ToLowerCase(Trim(email))
      passwordHash == hashString(password)
      users2 == Put(m.users, normalizedEmail,
                    Literal(<< <<"passwordHash", Str(passwordHash)>> >>))
  IN  Returned([m EXCEPT !.users = users2,
                         !.storage = saveState(m.storage, STORAGE_KEYS.USERS, users2)])

registerUser(m, email, password) ==
  LET normalizedEmail == ToLowerCase(Trim(email)) IN
  IF Truthy(Get(m.users, normalizedEmail))
  THEN Thrown("User already exists", m)
  ELSE LET passwordHash == hashString(password)
           users2 == Put(m.users, normalizedEmail,
                         Literal(<< <<"passwordHash", Str(passwordHash)>> >>))
       IN  Returned([m EXCEPT !.users = users2,
                              !.storage = saveState(m.storage, STORAGE_KEYS.USERS, users2)])

\* loginUser looking the email up as typed
loginUser_rawEmail(m, email, password) ==
  LET normalizedEmail == email
      user == Get(m.users, normalizedEmail)
  IN  IF ~Truthy(user) THEN Thrown("Invalid credentials", m)
      ELSE IF Get(user, <<"passwordHash">>) # Str(hashString(password))
           THEN Thrown("Invalid credentials", m)
      ELSE Returned(setCurrentUser(m, Str(normalizedEmail)))

\* loginUser without the comparison of digests
loginUser_anyPassword(m, email, password) ==
  LET normalizedEmail == ToLowerCase(Trim(email))
      user == Get(m.users, normalizedEmail)
  IN  IF ~Truthy(user) THEN Thrown("Invalid credentials", m)
      ELSE Returned(setCurrentUser(m, Str(normalizedEmail)))

loginUser(m, email, password) ==
  LET normalizedEmail == ToLowerCase(Trim(email))
      user == Get(m.users, normalizedEmail)
  IN  IF ~Truthy(user) THEN Thrown("Invalid credentials", m)
      ELSE IF Get(user, <<"passwordHash">>) # Str(hashString(password))
           THEN Thrown("Invalid credentials", m)
      ELSE Returned(setCurrentUser(m, Str(normalizedEmail)))

\* logoutUser that saves the null and keeps the variable
logoutUser_storageOnly(m) ==
  [m EXCEPT !.storage = saveState(m.storage, STORAGE_KEYS.USER, Null)]

\* logoutUser that takes the cart with the session
logoutUser_dropsCart(m) ==
  [m EXCEPT !.currentUser = Null, !.cart = Obj(<<>>),
            !.storage = saveState(saveState(m.storage, STORAGE_KEYS.USER, Null),
                                  STORAGE_KEYS.CART, Obj(<<>>))]

\* logoutUser without the saveState
logoutUser_memoryOnly(m) == [m EXCEPT !.currentUser = Null]

logoutUser(m) ==
  [m EXCEPT !.currentUser = Null,
            !.storage = saveState(m.storage, STORAGE_KEYS.USER, Null)]

\* The token is the hexadecimal text of the value drawn.  The model numbers
\* the draws: 128 random bits are taken never to repeat.
generateCsrfToken(m) == Str(ToHex(m.drawn + 1))

\* csrfToken = generateCsrfToken(); csrfInput.value = csrfToken
IssueToken(m) ==
  [m EXCEPT !.csrfToken = generateCsrfToken(m),
            !.csrfInput = generateCsrfToken(m),
            !.drawn = m.drawn + 1]

addToCart(m, productId) ==
  LET cart2 == Put(m.cart, productId,
                   Num(OrElse(Get(m.cart, productId), Num(0)).n + 1))
  IN  [m EXCEPT !.cart = cart2,
                !.storage = saveState(m.storage, STORAGE_KEYS.CART, cart2)]

\* updateCartItem that sets the quantity to delta
updateCartItem_setsQty(m, productId, delta) ==
  IF ~Truthy(Get(m.cart, productId)) THEN m
  ELSE LET newQty == delta
           cart2 == IF newQty <= 0 THEN Delete(m.cart, productId)
                    ELSE Put(m.cart, productId, Num(newQty))
       IN  [m EXCEPT !.cart = cart2,
                     !.storage = saveState(m.storage, STORAGE_KEYS.CART, cart2)]

\* updateCartItem with "newQty < 0" for "newQty <= 0"
updateCartItem_keepsZero(m, productId, delta) ==
  IF ~Truthy(Get(m.cart, productId)) THEN m
  ELSE LET newQty == Get(m.cart, productId).n + delta
           cart2 == IF newQty < 0 THEN Delete(m.cart, productId)
                    ELSE Put(m.cart, productId, Num(newQty))
       IN  [m EXCEPT !.cart = cart2,
                     !.storage = saveState(m.storage, STORAGE_KEYS.CART, cart2)]

updateCartItem(m, productId, delta) ==
  IF ~Truthy(Get(m.cart, productId)) THEN m
  ELSE LET newQty == Get(m.cart, productId).n + delta
           cart2 == IF newQty <= 0 THEN Delete(m.cart, productId)
                    ELSE Put(m.cart, productId, Num(newQty))
       IN  [m EXCEPT !.cart = cart2,
                     !.storage = saveState(m.storage, STORAGE_KEYS.CART, cart2)]

clearCart(m) ==
  [m EXCEPT !.cart = Obj(<<>>),
            !.storage = saveState(m.storage, STORAGE_KEYS.CART, Obj(<<>>))]

\* PRODUCTS.find(p => p.id === id)
FindProduct(id) ==
  LET hits == SelectSeq(PRODUCTS, LAMBDA p : Get(p, <<"id">>) = Str(id))
  IN  IF hits = <<>> THEN Undefined ELSE hits[1]

\* cartItemsWithDetails with the price for the line total
cartItemsWithDetails_unitPrice(m) ==
  LET entries == Entries(m.cart)
      mapped == [i \in 1..Len(entries) |->
                   LET product == FindProduct(entries[i].k) IN
                   IF ~Truthy(product) THEN Null
                   ELSE Put(Put(product, <<"qty">>, entries[i].v), <<"lineTotal">>,
                            Num(Get(product, <<"price">>).n))]
  IN  SelectSeq(mapped, Truthy)

\* cartItemsWithDetails that stops at the first entry
cartItemsWithDetails_firstOnly(m) ==
  LET entries == IF Entries(m.cart) = <<>> THEN <<>> ELSE <<Head(Entries(m.cart))>>
      mapped == [i \in 1..Len(entries) |->
                   LET product == FindProduct(entries[i].k) IN
                   IF ~Truthy(product) THEN Null
                   ELSE Put(Put(product, <<"qty">>, entries[i].v), <<"lineTotal">>,
                            Num(Get(product, <<"price">>).n * entries[i].v.n))]
  IN  SelectSeq(mapped, Truthy)

cartItemsWithDetails(m) ==
  LET entries == Entries(m.cart)
      mapped == [i \in 1..Len(entries) |->
                   LET product == FindProduct(entries[i].k) IN
                   IF ~Truthy(product) THEN Null
                   ELSE Put(Put(product, <<"qty">>, entries[i].v), <<"lineTotal">>,
                            Num(Get(product, <<"price">>).n * entries[i].v.n))]
  IN  SelectSeq(mapped, Truthy)

RECURSIVE SumLineTotals(_)
SumLineTotals(items) ==
  IF items = <<>> THEN 0
  ELSE SumLineTotals(SubSeq(items, 1, Len(items) - 1))
       + Get(items[Len(items)], <<"lineTotal">>).n

cartTotals(m) ==
  LET items == cartItemsWithDetails(m)
  IN  [items |-> items, subtotal |-> SumLineTotals(items)]

loadOrders(m) ==
  LET allOrders == loadState(m.storage, STORAGE_KEYS.ORDERS, Obj(<<>>)) IN
  IF ~Truthy(m.currentUser) THEN Arr(<<>>)
  ELSE OrElse(Get(allOrders, m.currentUser.s), Arr(<<>>))

\* saveOrder that puts the order behind the newest one
saveOrder_behindNewest(m, order) ==
  LET allOrders == loadState(m.storage, STORAGE_KEYS.ORDERS, Obj(<<>>)) IN
  IF ~Truthy(m.currentUser) THEN m
  ELSE LET userOrders == OrElse(Get(allOrders, m.currentUser.s), Arr(<<>>))
           allOrders2 == Put(allOrders, m.currentUser.s,
                             Arr(IF userOrders.a = <<>> THEN <<order>>
                                 ELSE <<Head(userOrders.a), order>> \o Tail(userOrders.a)))
       IN  [m EXCEPT !.storage = saveState(m.storage, STORAGE_KEYS.ORDERS, allOrders2)]

\* saveOrder with push for unshift
saveOrder_appends(m, order) ==
  LET allOrders == loadState(m.storage, STORAGE_KEYS.ORDERS, Obj(<<>>)) IN
  IF ~Truthy(m.currentUser) THEN m
  ELSE LET userOrders == OrElse(Get(allOrders, m.currentUser.s), Arr(<<>>))
           allOrders2 == Put(allOrders, m.currentUser.s, Arr(userOrders.a \o <<order>>))
       IN  [m EXCEPT !.storage = saveState(m.storage, STORAGE_KEYS.ORDERS, allOrders2)]

saveOrder(m, order) ==
  LET allOrders == loadState(m.storage, STORAGE_KEYS.ORDERS, Obj(<<>>)) IN
  IF ~Truthy(m.currentUser) THEN m
  ELSE LET userOrders == OrElse(Get(allOrders, m.currentUser.s), Arr(<<>>))
           allOrders2 == Put(allOrders, m.currentUser.s, Arr(<<order>> \o userOrders.a))
       IN  [m EXCEPT !.storage = saveState(m.storage, STORAGE_KEYS.ORDERS, allOrders2)]

(***************************************************************************)
(* What the user (or a script on the page) can type and click.             *)
(***************************************************************************)
\* hashString gives the first two the same digest, 596e34
Passwords == {<<"a", "p">>, <<"g", "6">>, <<"q">>}
\* what the register form is submitted with
Registrations ==
  { [email |-> <<"a">>, password |-> <<"a", "p">>],
    [email |-> <<" ", "A", "\t">>, password |-> <<"q">>],
    [email |-> <<"b">>, password |-> <<"q">>] }
\* what the login form is submitted with
Logins ==
  { [email |-> <<"a">>, password |-> <<"a", "p">>],
    [email |-> <<" ", "A", "\t">>, password |-> <<"a", "p">>],
    [email |-> <<"a">>, password |-> <<"g", "6">>],
    [email |-> <<"a">>, password |-> <<"q">>],
    [email |-> <<"b">>, password |-> <<"q">>],
    [email |-> <<"b">>, password |-> <<"a", "p">>] }
Shelf == {<<"p1">>, <<"p4">>}         \* the products whose buttons are clicked
OneShelf == {<<"p1">>}               \* one of them, where the orders vary
Deltas == {-2, -1, 1, 2}
UnknownId == <<"p0">>                 \* an id that no product of the catalog has
\* the carts a page load finds in localStorage
StoredCarts ==
  { Obj(<<>>),
    Obj(<< [k |-> <<"p1">>, v |-> Num(1)] >>),
    Obj(<< [k |-> <<"p1">>, v |-> Num(2)], [k |-> <<"p4">>, v |-> Num(1)] >>),
    Obj(<< [k |-> <<"p4">>, v |-> Num(2)] >>),
    Obj(<< [k |-> UnknownId, v |-> Num(2)] >>),
    Obj(<< [k |-> <<"p1">>, v |-> Num(2)], [k |-> UnknownId, v |-> Num(1)],
           [k |-> <<"p4">>, v |-> Num(1)] >>) }
OrderIds == {7}                      \* Math.floor(Math.random() * 1_000_000)
ShipForms ==
  { [name |-> <<" ", "a">>, address |-> <<"b", "\t", "a">>, city |-> <<"a", " ">>,
     zip |-> <<"\t", "6">>, phone |-> <<"6">>] }

(***************************************************************************)
(* State.                                                                  *)
(***************************************************************************)
VARIABLES
  storage,      \* localStorage: key -> JSON text, for the keys that are set
  currentUser,  \* let currentUser
  users,        \* let users
  cart,         \* let cart
  csrfToken,    \* let csrfToken
  csrfInput,    \* csrfInput.value
  drawn,        \* how many tokens crypto.getRandomValues has handed out
  now,          \* the last reading of Date.now()
  last,         \* history: the last event handled, the notice it raised, what it was
                \* given and, for updateCartItem, the cart[productId] it read
  registered    \* history: normalised email -> password of the registration that succeeded

vars == <<storage, currentUser, users, cart, csrfToken, csrfInput, drawn, now, last, registered>>

Mem ==
  [storage |-> storage, currentUser |-> currentUser, users |-> users, cart |-> cart,
   csrfToken |-> csrfToken, csrfInput |-> csrfInput, drawn |-> drawn]

Commit(m) ==
  /\ storage' = m.storage
  /\ currentUser' = m.currentUser
  /\ users' = m.users
  /\ cart' = m.cart
  /\ csrfToken' = m.csrfToken
  /\ csrfInput' = m.csrfInput
  /\ drawn' = m.drawn

\* The module-level statements and the DOMContentLoaded handler, run over
\* the localStorage the page finds.
PageLoad(store, draws) ==
  IssueToken([storage |-> store,
              currentUser |-> loadState(store, STORAGE_KEYS.USER, Null),
              users |-> loadState(store, STORAGE_KEYS.USERS, Obj(<<>>)),
              cart |-> loadState(store, STORAGE_KEYS.CART, Obj(<<>>)),
              csrfToken |-> Undefined, csrfInput |-> Str(<<>>), drawn |-> draws])

NoStorage == [k \in {} |-> <<>>]

Init ==
  /\ \E m \in {PageLoad(NoStorage, 0)} :
       /\ storage = m.storage
       /\ currentUser = m.currentUser
       /\ users = m.users
       /\ cart = m.cart
       /\ csrfToken = m.csrfToken
       /\ csrfInput = m.csrfInput
       /\ drawn = m.drawn
  /\ now = 0
  /\ last = [op |-> "load", alert |-> ""]
  /\ registered = [k \in {} |-> <<>>]

(***************************************************************************)
(* The event handlers.                                                     *)
(***************************************************************************)
RECURSIVE SumQty(_)
SumQty(members) == IF members = <<>> THEN 0 ELSE Head(members).v.n + SumQty(Tail(members))

\* the number updateCartCount shows
Units(c) == SumQty(c.m)

\* productGridEl click on an "Add to cart" button
productGridClick(id) ==
  /\ Units(cart) < MaxUnits
  /\ \E m \in {addToCart(Mem, id)} : Commit(m)
  /\ last' = [op |-> "addToCart", alert |-> "", productId |-> id]
  /\ UNCHANGED <<now, registered>>

\* cartItemsEl click on + or - (delta 1 or -1), and updateCartItem called
\* with any other delta
cartItemsClick(id, delta) ==
  /\ \E m \in {updateCartItem(Mem, id, delta)} :
       /\ Units(m.cart) <= (IF Units(cart) > MaxUnits THEN Units(cart) ELSE MaxUnits)
       /\ Commit(m)
  /\ last' = [op |-> "updateCartItem", alert |-> "", productId |-> id, delta |-> delta,
              qty |-> Get(cart, id)]
  /\ UNCHANGED <<now, registered>>

\* btnCheckout click
btnCheckoutClick ==
  /\ drawn < MaxDraws
  /\ IF Len(cartTotals(Mem).items) = 0
     THEN /\ UNCHANGED <<storage, currentUser, users, cart, csrfToken, csrfInput, drawn>>
          /\ last' = [op |-> "btnCheckout", alert |-> "Cart is empty."]
     ELSE /\ \E m \in {IssueToken(Mem)} : Commit(m)
          /\ last' = [op |-> "btnCheckout", alert |-> ""]
  /\ UNCHANGED <<now, registered>>

\* OrderItem with the line total for the price
OrderItem_lineTotalAsPrice(item) ==
  Literal(<< <<"id", Get(item, <<"id">>)>>, <<"name", Get(item, <<"name">>)>>,
             <<"qty", Get(item, <<"qty">>)>>, <<"price", Get(item, <<"lineTotal">>)>> >>)

OrderItem(item) ==
  Literal(<< <<"id", Get(item, <<"id">>)>>, <<"name", Get(item, <<"name">>)>>,
             <<"qty", Get(item, <<"qty">>)>>, <<"price", Get(item, <<"price">>)>> >>)

Shipping(form) ==
  Literal(<< <<"name", Str(sanitizeInput(form.name))>>,
             <<"address", Str(sanitizeInput(form.address))>>,
             <<"city", Str(sanitizeInput(form.city))>>,
             <<"zip", Str(sanitizeInput(form.zip))>>,
             <<"phone", Str(sanitizeInput(form.phone))>> >>)

\* the order literal of the submit handler
NewOrder(totals, id, createdAt, form) ==
  Literal(<< <<"id", Num(id)>>, <<"createdAt", Num(createdAt)>>,
             <<"total", Num(totals.subtotal)>>,
             <<"items", Arr([i \in 1..Len(totals.items) |-> OrderItem(totals.items[i])])>>,
             <<"shipping", Shipping(form)>> >>)

Placed == "Payment successful (dummy). Order placed!"

\* checkoutSubmit without the look at items.length
checkoutSubmit_noEmptyCheck(m, formToken, valid, form, id, createdAt) ==
  IF ~Truthy(m.currentUser)
  THEN [alert |-> "Please login before placing an order.", m |-> m]
  ELSE IF ~Truthy(formToken) \/ formToken # m.csrfToken
  THEN [alert |-> "Session expired. Please try again.", m |-> IssueToken(m)]
  ELSE IF ~valid
  THEN [alert |-> "Please fill all required fields correctly.", m |-> m]
  ELSE [alert |-> Placed,
        m |-> IssueToken(clearCart(saveOrder(m, NewOrder(cartTotals(m), id, createdAt, form))))]

\* checkoutSubmit taking any token that is not empty
checkoutSubmit_anyToken(m, formToken, valid, form, id, createdAt) ==
  IF ~Truthy(m.currentUser)
  THEN [alert |-> "Please login before placing an order.", m |-> m]
  ELSE IF ~Truthy(formToken)
  THEN [alert |-> "Session expired. Please try again.", m |-> IssueToken(m)]
  ELSE IF ~valid
  THEN [alert |-> "Please fill all required fields correctly.", m |-> m]
  ELSE LET totals == cartTotals(m) IN
       IF Len(totals.items) = 0
       THEN [alert |-> "Cart is empty.", m |-> m]
       ELSE [alert |-> Placed,
             m |-> IssueToken(clearCart(saveOrder(m, NewOrder(totals, id, createdAt, form))))]

\* checkoutSubmit with a new token after every validation
checkoutSubmit_reissuesAlways(m, formToken, valid, form, id, createdAt) ==
  IF ~Truthy(m.currentUser)
  THEN [alert |-> "Please login before placing an order.", m |-> m]
  ELSE IF ~Truthy(formToken) \/ formToken # m.csrfToken
  THEN [alert |-> "Session expired. Please try again.", m |-> IssueToken(m)]
  ELSE IF ~valid
  THEN [alert |-> "Please fill all required fields correctly.", m |-> IssueToken(m)]
  ELSE LET totals == cartTotals(m) IN
       IF Len(totals.items) = 0
       THEN [alert |-> "Cart is empty.", m |-> IssueToken(m)]
       ELSE [alert |-> Placed,
             m |-> IssueToken(clearCart(saveOrder(m, NewOrder(totals, id, createdAt, form))))]

\* checkoutForm submit handler: formToken is csrfInput.value as submitted,
\* valid is checkoutForm.checkValidity(), id and createdAt are what
\* Math.random and Date.now yield
checkoutSubmit(m, formToken, valid, form, id, createdAt) ==
  IF ~Truthy(m.currentUser)
  THEN [alert |-> "Please login before placing an order.", m |-> m]
  ELSE IF ~Truthy(formToken) \/ formToken # m.csrfToken
  THEN [alert |-> "Session expired. Please try again.", m |-> IssueToken(m)]
  ELSE IF ~valid
  THEN [alert |-> "Please fill all required fields correctly.", m |-> m]
  ELSE LET totals == cartTotals(m) IN
       IF Len(totals.items) = 0
       THEN [alert |-> "Cart is empty.", m |-> m]
       ELSE [alert |-> Placed,
             m |-> IssueToken(clearCart(saveOrder(m, NewOrder(totals, id, createdAt, form))))]

\* every order in localStorage, over all users
AllOrders(store) == loadState(store, STORAGE_KEYS.ORDERS, Obj(<<>>))

RECURSIVE CountOrders(_)
CountOrders(members) ==
  IF members = <<>> THEN 0 ELSE Len(Head(members).v.a) + CountOrders(Tail(members))

\* the values the hidden token field can hold at submission: the one the
\* page put there, none, or any token issued before
FormTokens == {csrfInput, Str(<<>>)} \cup {Str(ToHex(k)) : k \in 1..drawn}

\* cap bounds the orders recorded
checkoutFormSubmit(formToken, valid, form, id, createdAt, cap) ==
  /\ \E r \in {checkoutSubmit(Mem, formToken, valid, form, id, createdAt)} :
       /\ r.m.drawn <= MaxDraws
       /\ r.alert = Placed => CountOrders(AllOrders(r.m.storage).m) <= cap
       /\ Commit(r.m)
       /\ now' = IF r.alert = Placed THEN createdAt ELSE now
       /\ last' = [op |-> "checkout", alert |-> r.alert, formToken |-> formToken]
  /\ UNCHANGED registered

\* btnLogout click, confirmed; the button is hidden from a guest
btnLogoutClick ==
  /\ Truthy(currentUser)
  /\ \E m \in {logoutUser(Mem)} : Commit(m)
  /\ last' = [op |-> "logout", alert |-> ""]
  /\ UNCHANGED <<now, registered>>

loginFormSubmit(email, password) ==
  /\ \E r \in {loginUser(Mem, email, password)} :
       /\ Commit(r.m)
       /\ last' = [op |-> "login", alert |-> r.message]
  /\ UNCHANGED <<now, registered>>

\* registerFormSubmit with setCurrentUser(email)
registerFormSubmit_rawEmail(email, password) ==
  /\ \E r \in {registerUser(Mem, email, password)} :
       /\ IF r.threw
          THEN /\ Commit(r.m)
               /\ UNCHANGED registered
          ELSE /\ \E m \in {setCurrentUser(r.m, Str(email))} : Commit(m)
               /\ registered' =
                    [k \in DOMAIN registered \cup {ToLowerCase(Trim(email))} |->
                       IF k = ToLowerCase(Trim(email)) THEN password ELSE registered[k]]
       /\ last' = [op |-> "register", alert |-> r.message]
  /\ UNCHANGED now

registerFormSubmit(email, password) ==
  /\ \E r \in {registerUser(Mem, email, password)} :
       /\ IF r.threw
          THEN /\ Commit(r.m)
               /\ UNCHANGED registered
          ELSE /\ \E m \in {setCurrentUser(r.m, Str(ToLowerCase(Trim(email))))} : Commit(m)
               /\ registered' =
                    [k \in DOMAIN registered \cup {ToLowerCase(Trim(email))} |->
                       IF k = ToLowerCase(Trim(email)) THEN password ELSE registered[k]]
       /\ last' = [op |-> "register", alert |-> r.message]
  /\ UNCHANGED now

\* the page is reloaded: the script starts again over the same localStorage
Reload ==
  /\ drawn < MaxDraws
  /\ \E m \in {PageLoad(storage, drawn)} : Commit(m)
  /\ last' = [op |-> "load", alert |-> ""]
  /\ UNCHANGED <<now, registered>>

\* the handlers, for the products on the given shelf and up to cap orders
Handlers(shelf, cap) ==
  \/ \E id \in shelf : productGridClick(id)
  \/ \E id \in shelf, delta \in Deltas : cartItemsClick(id, delta)
  \/ btnCheckoutClick
  \/ \E formToken \in FormTokens, valid \in BOOLEAN, form \in ShipForms,
        id \in OrderIds, createdAt \in now..MaxClock :
       checkoutFormSubmit(formToken, valid, form, id, createdAt, cap)
  \/ btnLogoutClick
  \/ \E c \in Logins : loginFormSubmit(c.email, c.password)
  \/ \E c \in Registrations : registerFormSubmit(c.email, c.password)
  \/ Reload

\* Two products, and at most MaxOrders orders.
Next == Handlers(Shelf, MaxOrders)

Spec == Init /\ [][Next]_vars

\* One product, and as many orders as there are tokens to draw.
HistoryNext == Handlers(OneShelf, MaxDraws)

HistorySpec == Init /\ [][HistoryNext]_vars

\* The page loads over a cart that localStorage holds.
CartInit ==
  /\ \E c \in StoredCarts :
       \E m \in {PageLoad(saveState(NoStorage, STORAGE_KEYS.CART, c), 0)} :
         /\ storage = m.storage
         /\ currentUser = m.currentUser
         /\ users = m.users
         /\ cart = m.cart
         /\ csrfToken = m.csrfToken
         /\ csrfInput = m.csrfInput
         /\ drawn = m.drawn
  /\ now = 0
  /\ last = [op |-> "load", alert |-> ""]
  /\ registered = [k \in {} |-> <<>>]

\* The handlers that read and write the cart, and updateCartItem called
\* with an id the catalog does not have.
CartNext ==
  \/ \E id \in Shelf : productGridClick(id)
  \/ \E id \in Shelf \cup {UnknownId}, delta \in Deltas : cartItemsClick(id, delta)
  \/ btnCheckoutClick
  \/ Reload

CartSpec == CartInit /\ [][CartNext]_vars

\* The values the script hands to saveState, key by key: the current user
\* or null, the user directory, the cart, the order mapping.
SampleOrder(c, createdAt) ==
  NewOrder(cartTotals([cart |-> c]), CHOOSE id \in OrderIds : TRUE, createdAt,
           CHOOSE form \in ShipForms : TRUE)

SampleUsers ==
  registerUser(registerUser([users |-> Obj(<<>>), storage |-> NoStorage],
                            <<"a">>, <<"a", "p">>).m, <<"b">>, <<"q">>).m.users

Persisted ==
  [k \in {STORAGE_KEYS.USER, STORAGE_KEYS.USERS, STORAGE_KEYS.CART, STORAGE_KEYS.ORDERS} |->
     CASE k = STORAGE_KEYS.USER -> {Null, Str(<<"a">>)}
       [] k = STORAGE_KEYS.USERS -> {Obj(<<>>), SampleUsers}
       [] k = STORAGE_KEYS.CART ->
            {Obj(<<>>), Obj(<< [k |-> <<"p1">>, v |-> Num(2)], [k |-> <<"p4">>, v |-> Num(1)] >>)}
       [] k = STORAGE_KEYS.ORDERS ->
            {Obj(<<>>),
             Put(Put(Obj(<<>>), <<"a">>,
                     Arr(<< SampleOrder(Obj(<< [k |-> <<"p4">>, v |-> Num(1)] >>), 1),
                            SampleOrder(Obj(<< [k |-> <<"p1">>, v |-> Num(2)],
                                               [k |-> <<"p4">>, v |-> Num(1)] >>), 0) >>)),
                 <<"b">>, Arr(<<>>))}]

\* texts that are not JSON
CorruptTexts ==
  { <<>>, <<Tok("undefined")>>, <<Tok("{"), StrTok(<<"a">>), Tok(":")>>,
    <<Tok("["), NumTok(1), Tok(","), Tok("]")>>, <<Tok("null"), Tok("null")>> }

\* how many tokens are left of a text that is cut short
CutAt == {1, 4}

\* saveState(key, value)
Persist(key, value) ==
  /\ storage' = saveState(storage, key, value)
  /\ last' = [op |-> "saveState", alert |-> "", key |-> key, value |-> value]
  /\ UNCHANGED <<currentUser, users, cart, csrfToken, csrfInput, drawn, now, registered>>

\* something else leaves under the key a text that JSON.parse refuses
Spoil(key, text) ==
  /\ storage' = SetItem(storage, key, text)
  /\ last' = [op |-> "spoil", alert |-> "", key |-> key]
  /\ UNCHANGED <<currentUser, users, cart, csrfToken, csrfInput, drawn, now, registered>>

\* the text under the key is cut short
Truncate(key, n) ==
  /\ HasItem(storage, key) /\ JSONparse(storage[key]).ok
  /\ n < Len(storage[key])
  /\ Spoil(key, SubSeq(storage[key], 1, n))

StorageNext ==
  \/ \E key \in DOMAIN Persisted : \E value \in Persisted[key] : Persist(key, value)
  \/ \E key \in {STORAGE_KEYS.USER, STORAGE_KEYS.ORDERS} : \E text \in CorruptTexts :
       Spoil(key, text)
  \/ \E key \in {STORAGE_KEYS.USERS, STORAGE_KEYS.CART} : \E n \in CutAt : Truncate(key, n)

\* saveState and loadState alone, over an empty localStorage
StorageSpec == Init /\ [][StorageNext]_vars

(***************************************************************************)
(* What the properties speak of.                                           *)
(***************************************************************************)
\* what a page load would read back from localStorage
StoredUser == loadState(storage, STORAGE_KEYS.USER, Null)
StoredUsers == loadState(storage, STORAGE_KEYS.USERS, Obj(<<>>))
StoredCart == loadState(storage, STORAGE_KEYS.CART, Obj(<<>>))

Normalised(email) == ToLowerCase(Trim(email))

\* the tokens issued so far
IssuedTokens == {Str(ToHex(k)) : k \in 1..drawn}

\* the text stored under the orders key, empty when there is none
OrdersText(store) ==
  IF HasItem(store, STORAGE_KEYS.ORDERS) THEN store[STORAGE_KEYS.ORDERS] ELSE <<>>

\* the order list stored for user k, newest first
OrdersOf(store, k) == OrElse(Get(AllOrders(store), k), Arr(<<>>)).a

PositiveQuantities(c) ==
  \A i \in 1..Len(c.m) : c.m[i].v.t = "number" /\ c.m[i].v.n \in Nat \ {0}

NotLoggedIn == "Please login before placing an order."
SessionExpired == "Session expired. Please try again."
InvalidForm == "Please fill all required fields correctly."
EmptyCart == "Cart is empty."

(***************************************************************************)
(* C1: whatever sequence of add, update, clear and checkout has run, every *)
(* entry of the cart, in memory and as persisted, maps its product id to a *)
(* strictly positive integer; no entry of quantity 0 or less is stored.    *)
(***************************************************************************)
C1_QuantitiesPositive ==
  /\ PositiveQuantities(cart)
  /\ StoredCart.t = "object" /\ PositiveQuantities(StoredCart)

\* updateCartItem has just taken one unit from a line of two and kept the line
C1_Witness ==
  /\ last.op = "updateCartItem" /\ last.delta = -1
  /\ Get(cart, last.productId) = Num(1)
  /\ StoredCart = cart

(***************************************************************************)
(* C2: a checkout submission made when no user is logged in, or the        *)
(* submitted token is empty or differs from the expected one, or the       *)
(* shipping form fails validation, or the cart has no items, places no     *)
(* order and leaves the cart, the order mapping, the user directory and    *)
(* the current user unchanged, in memory and in localStorage.              *)
(***************************************************************************)
C2_FailedCheckoutChangesNothing ==
  [][last'.op = "checkout" =>
       \A formToken \in {last'.formToken}, valid \in BOOLEAN, form \in ShipForms,
          id \in OrderIds, createdAt \in now..MaxClock :
         ( /\ checkoutFormSubmit(formToken, valid, form, id, createdAt, MaxDraws)
           /\ \/ ~Truthy(currentUser)
              \/ formToken = Str(<<>>)
              \/ formToken # csrfToken
              \/ ~valid
              \/ cart.m = <<>> )
         => /\ last'.alert # Placed
            /\ cart' = cart /\ users' = users /\ currentUser' = currentUser
            /\ storage' = storage]_vars

\* a logged-in user has submitted the expected token and a valid form over
\* an empty cart
C2_Witness ==
  /\ last.op = "checkout" /\ last.alert = EmptyCart
  /\ Truthy(currentUser) /\ cart.m = <<>>

Catalog(id) == PRODUCTS[CHOOSE i \in 1..Len(PRODUCTS) : Get(PRODUCTS[i], <<"id">>) = Str(id)]

\* the cart's entries as order items: id, name, qty, price
CartAsItems(c) ==
  [i \in 1..Len(c.m) |->
     Literal(<< <<"id", Str(c.m[i].k)>>, <<"name", Get(Catalog(c.m[i].k), <<"name">>)>>,
                <<"qty", c.m[i].v>>, <<"price", Get(Catalog(c.m[i].k), <<"price">>)>> >>)]

RECURSIVE Subtotal(_)
Subtotal(members) ==
  IF members = <<>> THEN 0
  ELSE Get(Catalog(Head(members).k), <<"price">>).n * Head(members).v.n
       + Subtotal(Tail(members))

C5_StaleTokenFails ==
  [][(last'.op = "checkout" /\ last'.formToken \in IssuedTokens \ {csrfToken}) =>
       /\ last'.alert \in {NotLoggedIn, SessionExpired}
       /\ OrdersText(storage') = OrdersText(storage)
       /\ cart' = cart]_vars

\* a logged-in user with a cart to pay for has submitted a token that had
\* been replaced
C5_Witness ==
  /\ last.op = "checkout" /\ last.alert = SessionExpired
  /\ last.formToken \in IssuedTokens
  /\ Truthy(currentUser) /\ cart.m # <<>>

InvalidCredentials == "Invalid credentials"
DuplicateUser == "User already exists"

\* the digest of each password the model types
Digest == [p \in Passwords |-> hashString(p)]

(***************************************************************************)
(* C6: once register(email, password) has succeeded, every later           *)
(* login(email2, password) whose email2 normalises to the same key         *)
(* succeeds and sets the current user, in memory and in localStorage, to   *)
(* that normalised email, whatever has happened in between.                *)
(***************************************************************************)
C6_LoginAfterRegisterSucceeds ==
  [][last'.op = "login" =>
       \A c \in Logins :
         ( /\ Normalised(c.email) \in DOMAIN registered
           /\ registered[Normalised(c.email)] = c.password
           /\ loginFormSubmit(c.email, c.password) )
         => /\ last'.alert = ""
            /\ currentUser' = Str(Normalised(c.email))
            /\ StoredUser' = Str(Normalised(c.email))]_vars

\* a registered user has logged in again after someone else held the session
C6_Witness ==
  /\ last.op = "login" /\ last.alert = ""
  /\ Truthy(currentUser) /\ currentUser.s \in DOMAIN registered
  /\ Len(users.m) = 2 /\ users.m[1].k = currentUser.s

(***************************************************************************)
(* C7, as claimed: login for a normalised email with no record, or with a  *)
(* password different from the one that user registered with, fails with   *)
(* "Invalid credentials" and leaves the current user as it was, in memory  *)
(* and in localStorage.                                                    *)
(***************************************************************************)
C7_WrongPasswordFails ==
  [][last'.op = "login" =>
       \A c \in Logins :
         ( /\ \/ Normalised(c.email) \notin DOMAIN registered
              \/ registered[Normalised(c.email)] # c.password
           /\ loginFormSubmit(c.email, c.password) )
         => /\ last'.alert = InvalidCredentials
            /\ currentUser' = currentUser
            /\ StoredUser' = StoredUser]_vars

(***************************************************************************)
(* C7, amended: login for a normalised email with no record, or with a     *)
(* password whose hashString digest differs from the digest of the         *)
(* password that user registered with, fails with "Invalid credentials"    *)
(* and leaves the current user as it was, in memory and in localStorage.   *)
(***************************************************************************)
C7_WrongDigestFails ==
  [][last'.op = "login" =>
       \A c \in Logins :
         ( /\ \/ Normalised(c.email) \notin DOMAIN registered
              \/ Digest[registered[Normalised(c.email)]] # Digest[c.password]
           /\ loginFormSubmit(c.email, c.password) )
         => /\ last'.alert = InvalidCredentials
            /\ currentUser' = currentUser
            /\ StoredUser' = StoredUser
            /\ storage' = storage]_vars

\* a login has failed while another user, and both have a record, stays
\* logged in
C7_Witness ==
  /\ last.op = "login" /\ last.alert = InvalidCredentials
  /\ Truthy(currentUser) /\ Len(users.m) = 2

(***************************************************************************)
(* C8: register with an email that normalises to a key already in the      *)
(* user directory fails with "User already exists" and changes nothing:    *)
(* the stored password hash is not overwritten, the directory keeps one    *)
(* record per normalised email, and the current user is not changed.       *)
(***************************************************************************)
C8_DuplicateRegisterChangesNothing ==
  [][last'.op = "register" =>
       \A c \in Registrations :
         ( /\ registerFormSubmit(c.email, c.password)
           /\ Normalised(c.email) \in Keys(users) )
         => /\ last'.alert = DuplicateUser
            /\ users' = users /\ currentUser' = currentUser
            /\ storage' = storage
            /\ \A i, j \in 1..Len(users'.m) : users'.m[i].k = users'.m[j].k => i = j
            /\ \A i \in 1..Len(users'.m) : Normalised(users'.m[i].k) = users'.m[i].k]_vars

\* a registration was refused while the directory holds the record, and
\* the user registered with another password
C8_Witness ==
  /\ last.op = "register" /\ last.alert = DuplicateUser
  /\ <<"a">> \in DOMAIN registered /\ registered[<<"a">>] = <<"q">>
  /\ Get(Get(users, <<"a">>), <<"passwordHash">>) = Str(hashString(<<"q">>))

(***************************************************************************)
(* C9: the order mapping changes only by a successful checkout, and only   *)
(* in the list of the user logged in at the submission: that list gets the *)
(* new order at its head, with the orders it had behind it, unaltered and  *)
(* in the same order; every other user's list stays as it was.             *)
(***************************************************************************)
C9_OrdersOnlyPrepended ==
  [][OrdersText(storage') # OrdersText(storage) =>
       /\ last'.op = "checkout" /\ last'.alert = Placed
       /\ Truthy(currentUser) /\ currentUser' = currentUser
       /\ OrdersOf(storage', currentUser.s) # <<>>
       /\ Tail(OrdersOf(storage', currentUser.s)) = OrdersOf(storage, currentUser.s)
       /\ \A k \in Keys(AllOrders(storage)) \cup Keys(AllOrders(storage')) :
            k # currentUser.s => Get(AllOrders(storage'), k) = Get(AllOrders(storage), k)]_vars

\* a user has placed a second order, different from the first
C9_Witness ==
  /\ last.op = "checkout" /\ last.alert = Placed
  /\ Len(OrdersOf(storage, currentUser.s)) = 2
  /\ OrdersOf(storage, currentUser.s)[1] # OrdersOf(storage, currentUser.s)[2]

(***************************************************************************)
(* C10: after every operation the current user, the user directory and the *)
(* cart in localStorage equal the ones in memory, so that a page load at   *)
(* that point restores the same identity, directory and cart.              *)
(***************************************************************************)
C10_StorageMatchesMemory ==
  /\ StoredUser = currentUser
  /\ StoredUsers = users
  /\ StoredCart = cart
  /\ \A d \in drawn..drawn :
       /\ PageLoad(storage, d).currentUser = currentUser
       /\ PageLoad(storage, d).users = users
       /\ PageLoad(storage, d).cart = cart

\* a user has logged out over a cart and a directory that are stored
C10_Witness ==
  /\ last.op = "logout"
  /\ HasItem(storage, STORAGE_KEYS.USER) /\ storage[STORAGE_KEYS.USER] = <<Tok("null")>>
  /\ cart.m # <<>> /\ users.m # <<>>

\* the text stored under the cart key, empty when there is none
CartText(store) ==
  IF HasItem(store, STORAGE_KEYS.CART) THEN store[STORAGE_KEYS.CART] ELSE <<>>

(***************************************************************************)
(* C11: the cart is global, not per user: a register, a login (successful  *)
(* or failed) and a logout leave the cart as it was, in memory and in      *)
(* localStorage, so the cart built under one identity, or as a guest, is   *)
(* the cart of whoever is logged in next.                                  *)
(***************************************************************************)
C11_CartSurvivesIdentityChange ==
  [][last'.op \in {"register", "login", "logout"} =>
       /\ cart' = cart
       /\ CartText(storage') = CartText(storage)]_vars

\* a second user has logged in over the cart the first one left at logout
C11_Witness ==
  /\ last.op = "login" /\ last.alert = ""
  /\ Len(users.m) = 2 /\ currentUser = Str(users.m[1].k)
  /\ Units(cart) = 2 /\ StoredCart = cart

(***************************************************************************)
(* C12: updateCartItem(productId, delta) leaves the cart as it was when    *)
(* productId is not in it; when productId is in it with quantity q, the    *)
(* quantity becomes q + delta if q + delta > 0 and the entry is removed if *)
(* q + delta <= 0 (delta -2 on quantity 2 removes it); every other entry   *)
(* of the cart is as it was, and the cart is saved.                        *)
(***************************************************************************)
C12_UpdateItemSemantics ==
  [][last'.op = "updateCartItem" =>
       \A id \in {last'.productId}, delta \in {last'.delta} :
         /\ IF id \notin Keys(cart)
            THEN cart' = cart /\ storage' = storage
            ELSE IF Get(cart, id).n + delta > 0
                 THEN Get(cart', id) = Num(Get(cart, id).n + delta)
                 ELSE id \notin Keys(cart')
         /\ \A k \in (Keys(cart) \cup Keys(cart')) \ {id} : Get(cart', k) = Get(cart, k)
         /\ StoredCart' = cart']_vars

\* delta -2 has removed a line of quantity 2 and the other lines are there
C12_Witness ==
  /\ last.op = "updateCartItem" /\ last.delta = -2 /\ last.qty = Num(2)
  /\ last.productId \notin Keys(cart)
  /\ Len(cart.m) = 2 /\ StoredCart = cart

\* the ids of the catalog
CatalogIds == {Get(PRODUCTS[i], <<"id">>).s : i \in 1..Len(PRODUCTS)}

\* the entries of cart c whose product id is in the catalog
KnownEntries(c) == SelectSeq(c.m, LAMBDA e : e.k \in CatalogIds)

\* what cartTotals is to return for cart c
TotalsJoinCatalog(c, totals) ==
  LET known == KnownEntries(c) IN
  /\ Len(totals.items) = Len(known)
  /\ \A i \in 1..Len(known) :
       /\ Get(totals.items[i], <<"id">>) = Str(known[i].k)
       /\ Get(totals.items[i], <<"name">>) = Get(Catalog(known[i].k), <<"name">>)
       /\ Get(totals.items[i], <<"category">>) = Get(Catalog(known[i].k), <<"category">>)
       /\ Get(totals.items[i], <<"price">>) = Get(Catalog(known[i].k), <<"price">>)
       /\ Get(totals.items[i], <<"qty">>) = known[i].v
       /\ Get(totals.items[i], <<"lineTotal">>) =
            Num(Get(Catalog(known[i].k), <<"price">>).n * known[i].v.n)
  /\ totals.subtotal = Subtotal(known)
  /\ known = <<>> => totals.subtotal = 0

\* the cart {p1: 2, p4: 1}
ExampleCart == Obj(<< [k |-> <<"p1">>, v |-> Num(2)], [k |-> <<"p4">>, v |-> Num(1)] >>)

(***************************************************************************)
(* C13: for every cart, cartTotals returns one item per entry whose id is  *)
(* in the catalog, with the product's fields, the quantity and lineTotal = *)
(* price * qty, drops the entries whose id is not in the catalog, and      *)
(* returns as subtotal the sum of the line totals (0 when no entry is      *)
(* known, 9997 for {p1: 2, p4: 1}); the handler that calls it to open the  *)
(* checkout leaves the cart as it was.                                     *)
(***************************************************************************)
C13_TotalsJoinCatalog ==
  /\ [](/\ TotalsJoinCatalog(cart, cartTotals(Mem))
        /\ cart = ExampleCart => cartTotals(Mem).subtotal = 9997)
  /\ [][last'.op = "btnCheckout" => (cart' = cart /\ CartText(storage') = CartText(storage))]_vars

\* the checkout was opened over a cart that has two known lines and one of
\* an unknown product, and is worth 9997
C13_Witness ==
  /\ last.op = "btnCheckout" /\ last.alert = ""
  /\ Len(cart.m) = 3 /\ UnknownId \in Keys(cart)
  /\ Len(cartTotals(Mem).items) = 2
  /\ cartTotals(Mem).subtotal = 9997

\* Date.now() as recorded in an order
CreatedAt(order) == Get(order, <<"createdAt">>).n

(***************************************************************************)
(* C14: in every reachable state each user's order list is newest first:   *)
(* of two orders in one list, the one nearer the head was created no       *)
(* earlier than the one behind it, the clock never going backwards.        *)
(***************************************************************************)
C14_NewestFirst ==
  \A k \in Keys(AllOrders(storage)) :
    \A i, j \in 1..Len(OrdersOf(storage, k)) :
      i < j => CreatedAt(OrdersOf(storage, k)[i]) >= CreatedAt(OrdersOf(storage, k)[j])

\* a user has two orders, the one at the head created after the other
C14_Witness ==
  /\ Truthy(currentUser)
  /\ Len(OrdersOf(storage, currentUser.s)) = 2
  /\ CreatedAt(OrdersOf(storage, currentUser.s)[1]) > CreatedAt(OrdersOf(storage, currentUser.s)[2])

(***************************************************************************)
(* C15: after a logout the current user is absent, in memory and in        *)
(* localStorage, and from then until a login or a registration succeeds    *)
(* the current user stays absent, every checkout submission fails and no   *)
(* order is recorded for any user.                                         *)
(***************************************************************************)
C15_LoggedOutUntilLogin ==
  /\ [][last'.op = "logout" =>
          /\ currentUser' = Null
          /\ HasItem(storage', STORAGE_KEYS.USER)
          /\ storage'[STORAGE_KEYS.USER] = JSONstringify(Null)]_vars
  /\ [][~Truthy(currentUser) =>
          /\ Truthy(currentUser') =>
               (last'.op \in {"login", "register"} /\ last'.alert = "")
          /\ last'.op = "checkout" => last'.alert = NotLoggedIn
          /\ OrdersText(storage') = OrdersText(storage)]_vars

\* after a logout a checkout was submitted over a cart, with the token
\* expected, and was refused
C15_Witness ==
  /\ last.op = "checkout" /\ last.alert = NotLoggedIn
  /\ last.formToken = csrfToken
  /\ HasItem(storage, STORAGE_KEYS.USER) /\ storage[STORAGE_KEYS.USER] = JSONstringify(Null)
  /\ currentUser = Null /\ cart.m # <<>> /\ drawn > 1

\* the fallbacks the script calls loadState with
Fallbacks == {Null, Obj(<<>>)}

(***************************************************************************)
(* C16: for every key and every value the script persists (the current     *)
(* user or null, the user directory, the cart, the order mapping),         *)
(* saveState(key, v) followed by loadState(key, fallback) returns v;       *)
(* loadState returns the fallback when nothing is stored under the key or  *)
(* what is stored does not parse.                                          *)
(***************************************************************************)
C16_SaveLoadRoundTrip ==
  /\ [][last'.op = "saveState" =>
          \A fallback \in Fallbacks :
            loadState(storage', last'.key, fallback) = last'.value]_vars
  /\ [](\A fallback \in Fallbacks :
          /\ \A key \in DOMAIN Persisted :
               ~HasItem(storage, key) => loadState(storage, key, fallback) = fallback
          /\ last.op = "spoil" => loadState(storage, last.key, fallback) = fallback)

\* an order mapping of two users and two orders has been saved next to a
\* current user that does not parse
C16_Witness ==
  /\ last.op = "saveState" /\ last.key = STORAGE_KEYS.ORDERS
  /\ Len(OrdersOf(storage, <<"a">>)) = 2 /\ <<"b">> \in Keys(AllOrders(storage))
  /\ HasItem(storage, STORAGE_KEYS.USER)
  /\ storage[STORAGE_KEYS.USER] \in CorruptTexts
  /\ StoredUser = Null

\* k is the normalised email of a user that registered and has a record
RegisteredEmail(k) ==
  /\ Normalised(k) = k
  /\ k \in Keys(users)
  /\ k \in DOMAIN registered

(***************************************************************************)
(* C17: in every state reachable from an empty localStorage the current    *)
(* user is absent or the normalised email of a user in the user directory, *)
(* and every key of the order mapping is the normalised email of a         *)
(* registered user.                                                        *)
(***************************************************************************)
C17_IdentitiesAreRegistered ==
  /\ currentUser = Null \/ (currentUser.t = "string" /\ RegisteredEmail(currentUser.s))
  /\ AllOrders(storage).t = "object"
  /\ \A k \in Keys(AllOrders(storage)) : RegisteredEmail(k)

\* the user who registered as " A<tab>" has an order under "a", and the
\* other user is logged in
C17_Witness ==
  /\ <<"a">> \in DOMAIN registered /\ registered[<<"a">>] = <<"q">>
  /\ Keys(AllOrders(storage)) = {<<"a">>}
  /\ currentUser = Str(<<"b">>)

\* the sum of price * qty over the items of an order
RECURSIVE ItemsSum(_)
ItemsSum(items) ==
  IF items = <<>> THEN 0
  ELSE Get(Head(items), <<"price">>).n * Get(Head(items), <<"qty">>).n + ItemsSum(Tail(items))

ConsistentOrder(order) ==
  LET items == Get(order, <<"items">>).a IN
  /\ Len(items) >= 1
  /\ \A j \in 1..Len(items) :
       /\ Get(items[j], <<"id">>).s \in CatalogIds
       /\ Get(items[j], <<"price">>) = Get(Catalog(Get(items[j], <<"id">>).s), <<"price">>)
       /\ Get(items[j], <<"qty">>).n \in Nat \ {0}
  /\ Get(order, <<"total">>) = Num(ItemsSum(items))

(***************************************************************************)
(* C18: every order stored in any user's list is consistent in itself: it  *)
(* has at least one item, every item refers to a product of the catalog,   *)
(* carries that product's price and a quantity of at least 1, and the      *)
(* order's total is the sum of price * qty over its items.                 *)
(***************************************************************************)
C18_OrdersConsistent ==
  \A k \in Keys(AllOrders(storage)) :
    \A i \in 1..Len(OrdersOf(storage, k)) : ConsistentOrder(OrdersOf(storage, k)[i])

\* an order of two units of one product is stored
C18_Witness ==
  \E k \in Keys(AllOrders(storage)) :
    /\ Len(OrdersOf(storage, k)) = 1
    /\ Len(Get(OrdersOf(storage, k)[1], <<"items">>).a) = 1
    /\ Get(Get(OrdersOf(storage, k)[1], <<"items">>).a[1], <<"qty">>) = Num(2)
    /\ Get(OrdersOf(storage, k)[1], <<"total">>) = Num(3998)

====
